---- MODULE Spec2Model ----
(***************************************************************************)
(* Model of src/gameboy/cpu.rs: the flags register and its byte encoding,  *)
(* the register file with its 16-bit pairs, the instruction decoder, the   *)
(* memory bus and the fetch/decode/execute cycle of the Cpu.               *)
(*                                                                         *)
(* Every Rust function is an operator that returns a record                *)
(*   [fault |-> "none" or the panic it ends in, value |-> what it returns] *)
(* (plus the mutated receiver where the function takes &mut self).  Each   *)
(* action calls one function on the current Cpu and stores what was called *)
(* and what came back in `call`; the call before it is kept in `prev`.     *)
(***************************************************************************)
EXTENDS Integers, Sequences, FiniteSets, TLC

VARIABLES
    registers,        \* Cpu.registers : Registers (a, b, c, d, e, f, h, l)
    pc,               \* Cpu.pc : u16
    bus,              \* Cpu.bus : MemoryBus
    overflow_checks,  \* build profile: are integer overflow checks compiled in
    call,             \* the last function call, its arguments and its outcome
    prev,             \* the call before `call`
    calls             \* number of calls made so far

vars == <<registers, pc, bus, overflow_checks, call, prev, calls>>

----------------------------------------------------------------------------
(* Machine integers.                                                       *)

U8 == 0..255
U16 == 0..65535

RECURSIVE BitAnd(_, _)
\* x & y on naturals, bit by bit
BitAnd(x, y) ==
    IF x = 0 \/ y = 0 THEN 0
    ELSE ((x % 2) * (y % 2)) + 2 * BitAnd(x \div 2, y \div 2)

RECURSIVE BitOr(_, _)
\* x | y on naturals, bit by bit
BitOr(x, y) ==
    IF x = 0 THEN y
    ELSE IF y = 0 THEN x
    ELSE (IF (x % 2) + (y % 2) > 0 THEN 1 ELSE 0) + 2 * BitOr(x \div 2, y \div 2)

RECURSIVE Pow2(_)
Pow2(n) == IF n = 0 THEN 1 ELSE 2 * Pow2(n - 1)

\* x << n on a u8 / u16: bits shifted past the width are dropped
ShlU8(x, n) == (x * Pow2(n)) % 256
ShlU16(x, n) == (x * Pow2(n)) % 65536
\* x >> n
Shr(x, n) == x \div Pow2(n)

\* u8::from(bool)
U8FromBool(flag) == IF flag THEN 1 ELSE 0

Ok(v) == [fault |-> "none", value |-> v]
Panic(kind) == [fault |-> kind, value |-> 0]

----------------------------------------------------------------------------
(* FlagsRegister and its conversions.                                      *)

ZERO_FLAG_BYTE_POSITION == 7
SUBTRACT_FLAG_BYTE_POSITION == 6
HALF_CARRY_FLAG_BYTE_POSITION == 5
CARRY_FLAG_BYTE_POSITION == 4

FlagsRegister == [zero : BOOLEAN, subtract : BOOLEAN,
                  half_carry : BOOLEAN, carry : BOOLEAN]

\* the encoding with subtract and half_carry shifted to each other's position
U8FromFlagsSwapped(flags) ==
    BitOr(BitOr(BitOr(ShlU8(U8FromBool(flags.zero), ZERO_FLAG_BYTE_POSITION),
                      ShlU8(U8FromBool(flags.subtract), HALF_CARRY_FLAG_BYTE_POSITION)),
                ShlU8(U8FromBool(flags.half_carry), SUBTRACT_FLAG_BYTE_POSITION)),
          ShlU8(U8FromBool(flags.carry), CARRY_FLAG_BYTE_POSITION))

\* impl From<FlagsRegister> for u8
U8FromFlags(flags) ==
    BitOr(BitOr(BitOr(ShlU8(U8FromBool(flags.zero), ZERO_FLAG_BYTE_POSITION),
                      ShlU8(U8FromBool(flags.subtract), SUBTRACT_FLAG_BYTE_POSITION)),
                ShlU8(U8FromBool(flags.half_carry), HALF_CARRY_FLAG_BYTE_POSITION)),
          ShlU8(U8FromBool(flags.carry), CARRY_FLAG_BYTE_POSITION))

\* the decoding with the carry flag read one bit too low (bit 3)
FlagsFromU8CarryBit3(byte) ==
    [zero       |-> BitAnd(Shr(byte, ZERO_FLAG_BYTE_POSITION), 1) # 0,
     subtract   |-> BitAnd(Shr(byte, SUBTRACT_FLAG_BYTE_POSITION), 1) # 0,
     half_carry |-> BitAnd(Shr(byte, HALF_CARRY_FLAG_BYTE_POSITION), 1) # 0,
     carry      |-> BitAnd(Shr(byte, CARRY_FLAG_BYTE_POSITION - 1), 1) # 0]

\* impl From<u8> for FlagsRegister
FlagsFromU8(byte) ==
    [zero       |-> BitAnd(Shr(byte, ZERO_FLAG_BYTE_POSITION), 1) # 0,
     subtract   |-> BitAnd(Shr(byte, SUBTRACT_FLAG_BYTE_POSITION), 1) # 0,
     half_carry |-> BitAnd(Shr(byte, HALF_CARRY_FLAG_BYTE_POSITION), 1) # 0,
     carry      |-> BitAnd(Shr(byte, CARRY_FLAG_BYTE_POSITION), 1) # 0]

----------------------------------------------------------------------------
(* Registers and the 16-bit pairs.                                         *)

\* Registers::get_bc
get_bc(regs) == BitOr(ShlU16(regs.b, 8), regs.c)

\* set_bc with the low byte written to e instead of c
set_bc_writes_e(regs, value) ==
    [regs EXCEPT !.b = Shr(BitAnd(value, 65280), 8) % 256,
                 !.e = BitAnd(value, 255) % 256]

\* Registers::set_bc
set_bc(regs, value) ==
    [regs EXCEPT !.b = Shr(BitAnd(value, 65280), 8) % 256,
                 !.c = BitAnd(value, 255) % 256]

\* Registers::get_de
get_de(regs) == BitOr(ShlU16(regs.d, 8), regs.e)

\* set_de with the high byte taken without the shift, then truncated
set_de_unshifted(regs, value) ==
    [regs EXCEPT !.d = BitAnd(value, 65280) % 256,
                 !.e = BitAnd(value, 255) % 256]

\* Registers::set_de
set_de(regs, value) ==
    [regs EXCEPT !.d = Shr(BitAnd(value, 65280), 8) % 256,
                 !.e = BitAnd(value, 255) % 256]

----------------------------------------------------------------------------
(* Instructions and the decoder.                                           *)

ArithmeticTarget == {"A", "B", "C", "D", "E", "H", "L"}
IncDecTarget == {"BC", "DE"}
PrefixTarget == {"B"}
JumpTest == {"NotZero", "Zero", "NotCarry", "Carry", "Always"}

Add(target) == [kind |-> "Add", operand |-> target]
Inc(target) == [kind |-> "Inc", operand |-> target]
Rlc(target) == [kind |-> "Rlc", operand |-> target]
Jp(test) == [kind |-> "Jp", operand |-> test]

Instruction ==
    {Add(t) : t \in ArithmeticTarget} \cup {Inc(t) : t \in IncDecTarget}
    \cup {Rlc(t) : t \in PrefixTarget} \cup {Jp(t) : t \in JumpTest}

\* Option::None of Option<Instruction>
None == [kind |-> "None", operand |-> "None"]

\* the 0xCB prefix byte tested in Cpu::step
PREFIX_BYTE == 203

\* Instruction::from_prefixed_byte
from_prefixed_byte(byte) ==
    IF byte = 0 THEN Rlc("B") ELSE None

\* from_normal_byte with a table entry for 0x81, Add(C)
from_normal_byte_with_add(byte) ==
    IF byte = 2 THEN Inc("BC")
    ELSE IF byte = 19 THEN Inc("DE")
    ELSE IF byte = 129 THEN Add("C")
    ELSE None

\* Instruction::from_normal_byte
from_normal_byte(byte) ==
    IF byte = 2 THEN Inc("BC")
    ELSE IF byte = 19 THEN Inc("DE")
    ELSE None

\* from_byte with the prefix flag ignored: every byte goes to the normal table
from_byte_ignores_prefix(byte, is_prefixed) ==
    from_normal_byte(byte)

\* Instruction::from_byte
from_byte(byte, is_prefixed) ==
    IF is_prefixed THEN from_prefixed_byte(byte) ELSE from_normal_byte(byte)

----------------------------------------------------------------------------
(* MemoryBus.                                                              *)

\* length of MemoryBus.memory, [u8; 0xFFFF]
MEMORY_LEN == 65535

\* memory[index] for an index inside the array.  bus.memory stores the cells
\* that were loaded; every other cell of the array holds 0.
MemoryAt(membus, index) ==
    IF index \in DOMAIN membus.memory THEN membus.memory[index] ELSE 0

\* MemoryBus::read_byte: an indexed read, which panics outside the array
read_byte(membus, address) ==
    IF address < MEMORY_LEN
    THEN Ok(MemoryAt(membus, address))
    ELSE Panic("index_out_of_bounds")

----------------------------------------------------------------------------
(* Cpu.                                                                    *)

\* u16 `+`: panics on overflow where overflow checks are compiled in (debug
\* profile), wraps where they are not (release profile)
AddU16(checks, x, y) ==
    IF x + y > 65535
    THEN IF checks THEN Panic("attempt_to_add_with_overflow")
                   ELSE Ok((x + y) % 65536)
    ELSE Ok(x + y)

\* wrapping_add replaced by u16::saturating_add
saturating_add(x, y) == IF x + y > 65535 THEN 65535 ELSE x + y

\* u16::wrapping_add
wrapping_add(x, y) == (x + y) % 65536

\* Cpu::add with the half carry taken from the sum instead of the accumulator
add_half_carry_of_sum(regs, value) ==
    LET sum == regs.a + value
        new_value == sum % 256
        did_overflow == sum > 255
    IN  [value |-> new_value,
         registers |->
            [regs EXCEPT !.f = [zero       |-> new_value = 0,
                                subtract   |-> FALSE,
                                carry      |-> did_overflow,
                                half_carry |-> BitAnd(new_value, 15) + BitAnd(value, 15) > 15]]]

\* Cpu::add: the sum and the registers with the flags set
add(regs, value) ==
    LET sum == regs.a + value
        new_value == sum % 256
        did_overflow == sum > 255
    IN  [value |-> new_value,
         registers |->
            [regs EXCEPT !.f = [zero       |-> new_value = 0,
                                subtract   |-> FALSE,
                                carry      |-> did_overflow,
                                half_carry |-> BitAnd(regs.a, 15) + BitAnd(value, 15) > 15]]]

\* Cpu::jump with the operand bytes joined big-endian
jump_big_endian(checks, counter, membus, should_jump) ==
    IF should_jump
    THEN LET low_address == AddU16(checks, counter, 1)
             low == IF low_address.fault = "none"
                    THEN read_byte(membus, low_address.value) ELSE low_address
             high_address == IF low.fault = "none"
                             THEN AddU16(checks, counter, 2) ELSE low
             high == IF high_address.fault = "none"
                     THEN read_byte(membus, high_address.value) ELSE high_address
         IN  IF high.fault = "none"
             THEN Ok(BitOr(ShlU16(low.value, 8), high.value))
             ELSE high
    ELSE Ok(wrapping_add(counter, 3))

\* Cpu::jump
jump(checks, counter, membus, should_jump) ==
    IF should_jump
    THEN LET low_address == AddU16(checks, counter, 1)
             low == IF low_address.fault = "none"
                    THEN read_byte(membus, low_address.value) ELSE low_address
             high_address == IF low.fault = "none"
                             THEN AddU16(checks, counter, 2) ELSE low
             high == IF high_address.fault = "none"
                     THEN read_byte(membus, high_address.value) ELSE high_address
         IN  IF high.fault = "none"
             THEN Ok(BitOr(ShlU16(high.value, 8), low.value))
             ELSE high
    ELSE Ok(wrapping_add(counter, 3))

\* the match on jump_test in Cpu::execute that yields should_jump
JumpTestHolds(flags, jump_test) ==
    CASE jump_test = "NotZero" -> ~flags.zero
      [] jump_test = "NotCarry" -> ~flags.carry
      [] jump_test = "Zero" -> flags.zero
      [] jump_test = "Carry" -> flags.carry
      [] jump_test = "Always" -> TRUE

\* Cpu::execute with an Inc or Rlc advancing the pc by one
execute_default_advances(checks, regs, counter, membus, instruction) ==
    IF instruction.kind = "Add"
    THEN IF instruction.operand = "C"
         THEN LET sum == add(regs, regs.c)
              IN  [fault |-> "none", value |-> wrapping_add(counter, 1),
                   registers |-> [sum.registers EXCEPT !.a = sum.value]]
         ELSE [fault |-> "none", value |-> counter, registers |-> regs]
    ELSE IF instruction.kind = "Jp"
    THEN LET target == jump(checks, counter, membus,
                            JumpTestHolds(regs.f, instruction.operand))
         IN  [fault |-> target.fault, value |-> target.value, registers |-> regs]
    ELSE [fault |-> "none", value |-> wrapping_add(counter, 1), registers |-> regs]

\* Cpu::execute with Rlc(B) rotating register b left by one bit
execute_rlc_rotates(checks, regs, counter, membus, instruction) ==
    IF instruction.kind = "Add"
    THEN IF instruction.operand = "C"
         THEN LET sum == add(regs, regs.c)
              IN  [fault |-> "none", value |-> wrapping_add(counter, 1),
                   registers |-> [sum.registers EXCEPT !.a = sum.value]]
         ELSE [fault |-> "none", value |-> counter, registers |-> regs]
    ELSE IF instruction.kind = "Jp"
    THEN LET target == jump(checks, counter, membus,
                            JumpTestHolds(regs.f, instruction.operand))
         IN  [fault |-> target.fault, value |-> target.value, registers |-> regs]
    ELSE IF instruction.kind = "Rlc"
    THEN [fault |-> "none", value |-> counter,
          registers |-> [regs EXCEPT !.b = ((2 * regs.b) % 256) + (regs.b \div 128)]]
    ELSE [fault |-> "none", value |-> counter, registers |-> regs]

\* Cpu::execute with Add(B) adding register b as Add(C) adds c
execute_adds_b(checks, regs, counter, membus, instruction) ==
    IF instruction.kind = "Add"
    THEN IF instruction.operand = "C"
         THEN LET sum == add(regs, regs.c)
              IN  [fault |-> "none", value |-> wrapping_add(counter, 1),
                   registers |-> [sum.registers EXCEPT !.a = sum.value]]
         ELSE IF instruction.operand = "B"
         THEN LET sum == add(regs, regs.b)
              IN  [fault |-> "none", value |-> wrapping_add(counter, 1),
                   registers |-> [sum.registers EXCEPT !.a = sum.value]]
         ELSE [fault |-> "none", value |-> counter, registers |-> regs]
    ELSE IF instruction.kind = "Jp"
    THEN LET target == jump(checks, counter, membus,
                            JumpTestHolds(regs.f, instruction.operand))
         IN  [fault |-> target.fault, value |-> target.value, registers |-> regs]
    ELSE [fault |-> "none", value |-> counter, registers |-> regs]

\* Cpu::execute with Add(C) storing the sum in c as well as in a
execute_add_stores_c(checks, regs, counter, membus, instruction) ==
    IF instruction.kind = "Add"
    THEN IF instruction.operand = "C"
         THEN LET sum == add(regs, regs.c)
              IN  [fault |-> "none", value |-> wrapping_add(counter, 1),
                   registers |-> [sum.registers EXCEPT !.a = sum.value, !.c = sum.value]]
         ELSE [fault |-> "none", value |-> counter, registers |-> regs]
    ELSE IF instruction.kind = "Jp"
    THEN LET target == jump(checks, counter, membus,
                            JumpTestHolds(regs.f, instruction.operand))
         IN  [fault |-> target.fault, value |-> target.value, registers |-> regs]
    ELSE [fault |-> "none", value |-> counter, registers |-> regs]

\* Cpu::execute: the returned next pc (or the panic) and the registers after
execute(checks, regs, counter, membus, instruction) ==
    IF instruction.kind = "Add"
    THEN IF instruction.operand = "C"
         THEN LET sum == add(regs, regs.c)
              IN  [fault |-> "none", value |-> wrapping_add(counter, 1),
                   registers |-> [sum.registers EXCEPT !.a = sum.value]]
         ELSE [fault |-> "none", value |-> counter, registers |-> regs]
    ELSE IF instruction.kind = "Jp"
    THEN LET target == jump(checks, counter, membus,
                            JumpTestHolds(regs.f, instruction.operand))
         IN  [fault |-> target.fault, value |-> target.value, registers |-> regs]
    ELSE [fault |-> "none", value |-> counter, registers |-> regs]

\* the fetch with the byte behind the prefix decoded as an unprefixed opcode
fetch_forgets_prefix(checks, counter, membus) ==
    LET first == read_byte(membus, counter)
    IN  IF first.fault # "none" THEN [fault |-> first.fault, byte |-> 0, is_prefixed |-> FALSE]
        ELSE IF first.value = PREFIX_BYTE
        THEN LET address == AddU16(checks, counter, 1)
                 second == IF address.fault = "none"
                           THEN read_byte(membus, address.value) ELSE address
             IN  [fault |-> second.fault, byte |-> second.value, is_prefixed |-> FALSE]
        ELSE [fault |-> "none", byte |-> first.value, is_prefixed |-> FALSE]

\* the fetch of Cpu::step: the opcode byte and whether it followed the prefix
fetch(checks, counter, membus) ==
    LET first == read_byte(membus, counter)
    IN  IF first.fault # "none" THEN [fault |-> first.fault, byte |-> 0, is_prefixed |-> FALSE]
        ELSE IF first.value = PREFIX_BYTE
        THEN LET address == AddU16(checks, counter, 1)
                 second == IF address.fault = "none"
                           THEN read_byte(membus, address.value) ELSE address
             IN  [fault |-> second.fault, byte |-> second.value, is_prefixed |-> TRUE]
        ELSE [fault |-> "none", byte |-> first.value, is_prefixed |-> FALSE]

\* Cpu::step with an unknown opcode skipped instead of ending in a panic
step_skips_unknown(checks, regs, counter, membus) ==
    LET fetched == fetch(checks, counter, membus)
        instruction == from_byte(fetched.byte, fetched.is_prefixed)
        executed == execute(checks, regs, counter, membus, instruction)
        decoded == [byte |-> fetched.byte, is_prefixed |-> fetched.is_prefixed,
                    instruction |-> instruction]
    IN  IF fetched.fault # "none"
        THEN [fault |-> fetched.fault, pc |-> counter, registers |-> regs,
              decoded |-> decoded]
        ELSE IF instruction = None
        THEN [fault |-> "none", pc |-> wrapping_add(counter, 1), registers |-> regs,
              decoded |-> decoded]
        ELSE IF executed.fault # "none"
        THEN [fault |-> executed.fault, pc |-> counter, registers |-> regs,
              decoded |-> decoded]
        ELSE [fault |-> "none", pc |-> executed.value,
              registers |-> executed.registers, decoded |-> decoded]

\* Cpu::step: the Cpu after the step, or the panic that ends it; `decoded` is
\* what the step handed to from_byte and what from_byte gave back
step(checks, regs, counter, membus) ==
    LET fetched == fetch(checks, counter, membus)
        instruction == from_byte(fetched.byte, fetched.is_prefixed)
        executed == execute(checks, regs, counter, membus, instruction)
        decoded == [byte |-> fetched.byte, is_prefixed |-> fetched.is_prefixed,
                    instruction |-> instruction]
    IN  IF fetched.fault # "none"
        THEN [fault |-> fetched.fault, pc |-> counter, registers |-> regs,
              decoded |-> decoded]
        ELSE IF instruction = None
        THEN [fault |-> "unknown_instruction", pc |-> counter, registers |-> regs,
              decoded |-> decoded]
        ELSE IF executed.fault # "none"
        THEN [fault |-> executed.fault, pc |-> counter, registers |-> regs,
              decoded |-> decoded]
        ELSE [fault |-> "none", pc |-> executed.value,
              registers |-> executed.registers, decoded |-> decoded]

----------------------------------------------------------------------------
(* The Cpu as a state machine: one action per function called on it.       *)

\* bounds of the model
MaxCalls == 2
ProgramLen == 3

\* program counters the Cpu starts at: 0x0100 and the top of the address space
PcSamples == {256, 65532, 65533, 65534, 65535}

\* addresses handed to read_byte: 0x0000, 0x0100, 0xFFFE, 0xFFFF
AddressSamples == {0, 256, 65534, 65535}

\* opcode bytes placed at pc: Inc(BC), Inc(DE), the prefix, and the unknown
\* opcodes 0x00, 0x81, 0xFF
OpcodeSamples == {2, 19, PREFIX_BYTE, 0, 129, 255}
\* bytes placed behind the opcode: 0x00, 0x02, 0x34, 0x12, 0xCB
OperandSamples == {0, 2, 52, 18, PREFIX_BYTE}

\* the byte strings of ProgramLen bytes loaded at pc
Programs ==
    {program \in [1..ProgramLen -> OpcodeSamples \cup OperandSamples] :
        /\ program[1] \in OpcodeSamples
        /\ program[2] \in {0, 2, 52}
        /\ \A i \in 3..ProgramLen : program[i] = (IF i = 3 THEN 18 ELSE 0)}

\* a MemoryBus holding `program` from address `base` on (wrapping at 2^16;
\* a byte that falls on an address outside the array is not stored)
Load(base, program) ==
    [memory |->
        [address \in {(base + i - 1) % 65536 : i \in 1..Len(program)}
                        \cap (0..(MEMORY_LEN - 1))
            |-> program[((address + 65536 - base) % 65536) + 1]]]

InitialRegisters(acc, value, flags) ==
    [a |-> acc, b |-> 17, c |-> value, d |-> 34, e |-> 255,
     f |-> flags, h |-> 68, l |-> 85]

\* flags the Cpu starts with: zero and carry vary, subtract is set
FlagSamples ==
    {flags \in FlagsRegister : flags.subtract /\ ~flags.half_carry}

\* accumulator and operand values the Cpu starts with
ByteSamples == {0, 1, 15, 16, 32, 128, 240, 255}

NoCall ==
    [op |-> "none", arg |-> 0, registers |-> 0, pc |-> 0, bus |-> 0,
     fault |-> "none", value |-> 0]

Init ==
    /\ overflow_checks \in BOOLEAN
    /\ pc \in PcSamples
    /\ \/ /\ \E program \in Programs : bus = Load(pc, program)
          /\ \E flags \in FlagSamples : registers = InitialRegisters(15, 1, flags)
       \/ /\ bus = Load(pc, <<2, 52, 18>>)
          /\ \E acc \in ByteSamples, value \in ByteSamples :
                registers = InitialRegisters(acc, value,
                    [zero |-> TRUE, subtract |-> TRUE,
                     half_carry |-> FALSE, carry |-> FALSE])
    /\ call = NoCall
    /\ prev = NoCall
    /\ calls = 0

\* a panic ends the program: nothing is called after it
Running == call.fault = "none" /\ calls < MaxCalls

Called(op, arg, fault, value) ==
    /\ call' = [op |-> op, arg |-> arg, registers |-> registers, pc |-> pc,
                bus |-> bus, fault |-> fault, value |-> value]
    /\ prev' = call
    /\ calls' = calls + 1

\* cpu.step()
Step ==
    /\ Running
    /\ LET result == step(overflow_checks, registers, pc, bus)
       IN  /\ registers' = result.registers
           /\ pc' = result.pc
           /\ Called("step", result.decoded, result.fault, result.pc)
    /\ UNCHANGED <<bus, overflow_checks>>

\* cpu.execute(instruction) with the accumulator written to memory at pc
ExecuteInstructionStoresAccumulator(instruction) ==
    /\ Running
    /\ LET result == execute(overflow_checks, registers, pc, bus, instruction)
       IN  /\ registers' = result.registers
           /\ bus' = [memory |->
                        [address \in DOMAIN bus.memory \cup {pc} |->
                            IF address = pc THEN result.registers.a
                            ELSE bus.memory[address]]]
           /\ Called("execute", instruction, result.fault, result.value)
    /\ UNCHANGED <<pc, overflow_checks>>

\* cpu.execute(instruction): returns the next pc, does not store it
ExecuteInstruction(instruction) ==
    /\ Running
    /\ LET result == execute(overflow_checks, registers, pc, bus, instruction)
       IN  /\ registers' = result.registers
           /\ Called("execute", instruction, result.fault, result.value)
    /\ UNCHANGED <<pc, bus, overflow_checks>>

Execute == \E instruction \in Instruction : ExecuteInstruction(instruction)

\* cpu.bus.read_byte(address)
ReadByte ==
    /\ Running
    /\ \E address \in AddressSamples :
          LET result == read_byte(bus, address)
          IN  Called("read_byte", address, result.fault, result.value)
    /\ UNCHANGED <<registers, pc, bus, overflow_checks>>

Next == Step \/ Execute \/ ReadByte

Spec == Init /\ [][Next]_vars

----------------------------------------------------------------------------
(* The Cpu driven by step alone.                                           *)

NextStep == Step

SpecStep == Init /\ [][NextStep]_vars

----------------------------------------------------------------------------
(* Add(C) on every accumulator and every value of c.                       *)

\* a Cpu at pc = 0x0100 with nothing called yet
InitIdle ==
    /\ overflow_checks = TRUE
    /\ pc = 256
    /\ bus = Load(256, <<2, 52, 18>>)
    /\ call = NoCall
    /\ prev = NoCall
    /\ calls = 0

InitAdd ==
    /\ InitIdle
    /\ \E acc \in U8, value \in U8 :
          registers = InitialRegisters(acc, value,
              [zero |-> TRUE, subtract |-> TRUE,
               half_carry |-> FALSE, carry |-> FALSE])

\* cpu.execute(Instruction::Add(ArithmeticTarget::C))
ExecuteAddC == ExecuteInstruction(Add("C"))

NextAdd == ExecuteAddC

SpecAdd == InitAdd /\ [][NextAdd]_vars

----------------------------------------------------------------------------
(* The instructions that advance the pc, at every pc.                      *)

InitAdvance ==
    /\ overflow_checks = TRUE
    /\ pc \in U16
    /\ bus = Load(256, <<2, 52, 18>>)
    /\ registers = InitialRegisters(15, 1,
            [zero |-> TRUE, subtract |-> TRUE,
             half_carry |-> FALSE, carry |-> FALSE])
    /\ call = NoCall
    /\ prev = NoCall
    /\ calls = 0

\* cpu.execute(Instruction::Jp(test)) for a test that fails on the flags
ExecuteJpNotTaken ==
    \E test \in JumpTest :
        /\ ~JumpTestHolds(registers.f, test)
        /\ ExecuteInstruction(Jp(test))

NextAdvance == ExecuteAddC \/ ExecuteJpNotTaken

SpecAdvance == InitAdvance /\ [][NextAdvance]_vars

----------------------------------------------------------------------------
(* The conversions between FlagsRegister and u8, called on their own.      *)

InitFlags ==
    /\ InitIdle
    /\ \E flags \in FlagSamples : registers = InitialRegisters(15, 1, flags)

\* bytes handed to a conversion: every byte for the first call; after it the
\* samples and the byte the last call returned or was given
ByteInputs ==
    IF calls = 0 THEN U8
    ELSE ByteSamples \cup OpcodeSamples
         \cup (IF call.op = "u8_from_flags" THEN {call.value} ELSE {})
         \cup (IF call.op = "from_byte" THEN {call.arg.byte} ELSE {})

\* u8::from(flags)
EncodeFlags ==
    /\ Running
    /\ \E flags \in FlagsRegister :
          Called("u8_from_flags", flags, "none", U8FromFlags(flags))
    /\ UNCHANGED <<registers, pc, bus, overflow_checks>>

\* FlagsRegister::from(byte)
DecodeFlags ==
    /\ Running
    /\ \E byte \in ByteInputs :
          Called("flags_from_u8", byte, "none", FlagsFromU8(byte))
    /\ UNCHANGED <<registers, pc, bus, overflow_checks>>

NextFlags == EncodeFlags \/ DecodeFlags

SpecFlags == InitFlags /\ [][NextFlags]_vars

----------------------------------------------------------------------------
(* The 16-bit pair accessors of Registers, called on their own.            *)

\* the 16-bit value written to the pairs after the first call: 0x1234
WordSamples == {4660}

\* the flags the register file starts with here
PairFlags ==
    [zero |-> TRUE, subtract |-> TRUE, half_carry |-> FALSE, carry |-> TRUE]

\* register files on which the first set is tried with every 16-bit value
SweepRegisters == {InitialRegisters(15, value, PairFlags) : value \in {1, 128}}

\* register files with sample bytes in the pairs: b, e = high and c, d = low
PairRegisters ==
    {[InitialRegisters(15, low, PairFlags) EXCEPT !.b = high, !.d = low, !.e = high] :
        high \in ByteSamples, low \in ByteSamples}

\* values handed to a set: every 16-bit value for the first call on a
\* register file of SweepRegisters; otherwise the samples and what the last
\* get returned
WordInputs ==
    IF calls = 0 /\ registers \in SweepRegisters THEN U16
    ELSE WordSamples
         \cup (IF call.op \in {"get_bc", "get_de"} THEN {call.value} ELSE {})

InitRegs ==
    /\ InitIdle
    /\ registers \in SweepRegisters \cup PairRegisters

\* registers.get_bc()
GetBc ==
    /\ Running
    /\ Called("get_bc", 0, "none", get_bc(registers))
    /\ UNCHANGED <<registers, pc, bus, overflow_checks>>

\* registers.set_bc(value)
SetBc ==
    /\ Running
    /\ \E value \in WordInputs :
          /\ registers' = set_bc(registers, value)
          /\ Called("set_bc", value, "none", 0)
    /\ UNCHANGED <<pc, bus, overflow_checks>>

\* registers.get_de()
GetDe ==
    /\ Running
    /\ Called("get_de", 0, "none", get_de(registers))
    /\ UNCHANGED <<registers, pc, bus, overflow_checks>>

\* registers.set_de(value)
SetDe ==
    /\ Running
    /\ \E value \in WordInputs :
          /\ registers' = set_de(registers, value)
          /\ Called("set_de", value, "none", 0)
    /\ UNCHANGED <<pc, bus, overflow_checks>>

NextRegs == GetBc \/ SetBc \/ GetDe \/ SetDe

SpecRegs == InitRegs /\ [][NextRegs]_vars

----------------------------------------------------------------------------
(* The decoder, called on its own.                                         *)

\* Instruction::from_byte(byte, is_prefixed)
FromByte ==
    /\ Running
    /\ \E byte \in ByteInputs, is_prefixed \in BOOLEAN :
          Called("from_byte", [byte |-> byte, is_prefixed |-> is_prefixed],
                 "none", from_byte(byte, is_prefixed))
    /\ UNCHANGED <<registers, pc, bus, overflow_checks>>

NextDecode == FromByte

SpecDecode == InitFlags /\ [][NextDecode]_vars

----------------------------------------------------------------------------
(* Properties of the Cpu, stated on the last call: call.registers, call.pc *)
(* and call.bus are the Cpu before the call, the variables the Cpu after.  *)

\* panics of the address arithmetic and of the indexed read
AddressFaults == {"index_out_of_bounds", "attempt_to_add_with_overflow"}

\* the condition of a jump test, read off a flags register
ConditionHolds(flags, jump_test) ==
    \/ jump_test = "Always"
    \/ jump_test = "NotZero" /\ flags.zero = FALSE
    \/ jump_test = "Zero" /\ flags.zero = TRUE
    \/ jump_test = "NotCarry" /\ flags.carry = FALSE
    \/ jump_test = "Carry" /\ flags.carry = TRUE

ExecutedJp == call.op = "execute" /\ call.arg.kind = "Jp"
ExecutedAddC == call.op = "execute" /\ call.arg = Add("C")

\* C1: read_byte(address) returns a byte, without an out-of-bounds fault, for
\* every 16-bit address 0x0000..0xFFFF, address 0xFFFF included.
C1_ReadByteInBounds ==
    call.op = "read_byte" =>
        /\ call.fault = "none"
        /\ call.value \in U8

\* C5: for every accumulator a and every value v of c, Add(C) sets the
\* accumulator to (a + v) mod 256, zero to (result = 0), subtract to
\* false, carry to (a + v > 255) and half_carry to
\* ((a & 0xF) + (v & 0xF) > 0xF) of the accumulator a before the call; so
\* 0x0F + 0x01 gives 0x10 with half_carry only and 0xFF + 0x01 gives 0x00
\* with zero, half_carry and carry.
C5_AddFlags ==
    ExecutedAddC =>
        LET a == call.registers.a
            v == call.registers.c
        IN  /\ call.fault = "none"
            /\ registers.a = (a + v) % 256
            /\ registers.f.zero = (((a + v) % 256) = 0)
            /\ registers.f.subtract = FALSE
            /\ registers.f.carry = (a + v > 255)
            /\ registers.f.half_carry = ((a % 16) + (v % 16) > 15)
            /\ (a = 15 /\ v = 1) =>
                    /\ registers.a = 16
                    /\ registers.f = [zero |-> FALSE, subtract |-> FALSE,
                                      half_carry |-> TRUE, carry |-> FALSE]
            /\ (a = 255 /\ v = 1) =>
                    /\ registers.a = 0
                    /\ registers.f = [zero |-> TRUE, subtract |-> FALSE,
                                      half_carry |-> TRUE, carry |-> TRUE]

\* Add(C) ran on accumulator 0xFF and c = 0x01 with subtract set before
C5_Witness ==
    /\ ExecutedAddC
    /\ call.registers.a = 255 /\ call.registers.c = 1
    /\ call.registers.f.subtract
    /\ registers.a = 0 /\ registers.f.zero /\ registers.f.carry

\* C6: a Jp that returns has taken the jump exactly when its condition holds
\* on the flags, and the next pc of a taken jump is
\* memory[pc+1] + 256 * memory[pc+2]; pc = 0x0100 with 0x34, 0x12 gives 0x1234.
C6_JumpTarget ==
    (ExecutedJp /\ call.fault = "none") =>
        LET low == MemoryAt(call.bus, (call.pc + 1) % 65536)
            high == MemoryAt(call.bus, (call.pc + 2) % 65536)
        IN  /\ call.value = IF ConditionHolds(call.registers.f, call.arg.operand)
                            THEN low + 256 * high
                            ELSE (call.pc + 3) % 65536
            /\ (call.pc = 256 /\ low = 52 /\ high = 18
                    /\ ConditionHolds(call.registers.f, call.arg.operand))
                => call.value = 4660

\* a conditional jump was taken at pc = 0x0100 over the bytes 0x34, 0x12
C6_Witness ==
    /\ ExecutedJp /\ call.fault = "none"
    /\ call.arg.operand = "Carry" /\ call.registers.f.carry
    /\ call.pc = 256
    /\ call.value = 4660

\* C7: Add(C) returns (pc + 1) mod 65536 and a Jp whose condition is false
\* returns (pc + 3) mod 65536, for every pc and without a fault; 0xFFFE
\* goes to 0xFFFF by 1 and to 0x0001 by 3.
C7_PcWraps ==
    /\ ExecutedAddC =>
            /\ call.fault = "none"
            /\ call.value = (call.pc + 1) % 65536
            /\ call.pc = 65534 => call.value = 65535
    /\ (ExecutedJp /\ ~ConditionHolds(call.registers.f, call.arg.operand)) =>
            /\ call.fault = "none"
            /\ call.value = (call.pc + 3) % 65536
            /\ call.pc = 65534 => call.value = 1

\* a jump that is not taken at pc = 0xFFFE returned 0x0001
C7_Witness ==
    /\ ExecutedJp
    /\ ~ConditionHolds(call.registers.f, call.arg.operand)
    /\ call.pc = 65534
    /\ call.fault = "none" /\ call.value = 1

\* C8: the fetch of the byte behind a 0xCB prefix (pc+1 in step) and of the
\* two operand bytes of a taken Jp (pc+1, pc+2 in jump) never faults: no
\* arithmetic overflow and no out-of-range read, for every pc.
C8_AddressArithmeticNeverFaults ==
    /\ (/\ call.op = "step"
        /\ call.pc < MEMORY_LEN
        /\ MemoryAt(call.bus, call.pc) = PREFIX_BYTE)
            => call.fault \notin AddressFaults
    /\ (ExecutedJp /\ ConditionHolds(call.registers.f, call.arg.operand))
            => call.fault \notin AddressFaults

\* the opcode fetched by a step whose fetch does not fault has no decoding
UnknownOpcodeFetched ==
    /\ call.op = "step"
    /\ call.pc < MEMORY_LEN
    /\ LET first == MemoryAt(call.bus, call.pc)
       IN  \/ first \notin {2, 19, PREFIX_BYTE}
           \/ /\ first = PREFIX_BYTE
              /\ call.pc + 1 < MEMORY_LEN
              /\ MemoryAt(call.bus, call.pc + 1) # 0

\* C10: a step that finds no decoding for the fetched opcode ends in a fatal
\* fault, and pc, registers, flags and memory are as they were before it.
C10_UnknownOpcodeIsFatal ==
    UnknownOpcodeFetched =>
        /\ call.fault = "unknown_instruction"
        /\ pc = call.pc
        /\ registers = call.registers
        /\ bus = call.bus

\* a step met 0xCB followed by a byte outside the prefixed table
C10_Witness ==
    /\ UnknownOpcodeFetched
    /\ MemoryAt(call.bus, call.pc) = PREFIX_BYTE
    /\ call.fault = "unknown_instruction"

----------------------------------------------------------------------------
(* Properties of the conversions, the pairs and the decoder.               *)

\* the last call encoded the flags that the call before it decoded
EncodedAfterDecode ==
    /\ call.op = "u8_from_flags"
    /\ prev.op = "flags_from_u8"
    /\ call.arg = prev.value

\* the last call decoded the byte that the call before it encoded
DecodedAfterEncode ==
    /\ call.op = "flags_from_u8"
    /\ prev.op = "u8_from_flags"
    /\ call.arg = prev.value

\* C2: for every byte b, encoding the flags decoded from b yields b & 0xF0:
\* the four flag bits are kept and the low nibble is cleared.
C2_FlagRoundTrip ==
    EncodedAfterDecode => call.value = prev.arg - (prev.arg % 16)

\* 0xBF was decoded and encoded back to 0xB0
C2_Witness ==
    /\ EncodedAfterDecode
    /\ prev.arg = 191
    /\ call.value = 176

\* C3: encode puts zero at bit 7, subtract at bit 6, half_carry at bit 5 and
\* carry at bit 4 and leaves bits 0-3 zero, for each of the 16 combinations,
\* and decoding the encoded byte gives back the same four flags.
C3_FlagBitPositions ==
    /\ call.op = "u8_from_flags" =>
            call.value = 128 * (IF call.arg.zero THEN 1 ELSE 0)
                         + 64 * (IF call.arg.subtract THEN 1 ELSE 0)
                         + 32 * (IF call.arg.half_carry THEN 1 ELSE 0)
                         + 16 * (IF call.arg.carry THEN 1 ELSE 0)
    /\ DecodedAfterEncode => call.value = prev.arg

\* zero and half_carry alone were encoded to 0xA0 and decoded back
C3_Witness ==
    /\ DecodedAfterEncode
    /\ prev.arg = [zero |-> TRUE, subtract |-> FALSE,
                   half_carry |-> TRUE, carry |-> FALSE]
    /\ prev.value = 160
    /\ call.value = prev.arg

\* C4: get_bc() after set_bc(v) returns v, with b holding bits 8-15 and c
\* bits 0-7, and set_bc(get_bc()) leaves b and c as they were; the same for
\* get_de / set_de with d and e.
C4_PairRoundTrip ==
    /\ (call.op = "get_bc" /\ prev.op = "set_bc") =>
            /\ call.value = prev.arg
            /\ registers.b = prev.arg \div 256
            /\ registers.c = prev.arg % 256
    /\ (call.op = "set_bc" /\ prev.op = "get_bc" /\ call.arg = prev.value) =>
            /\ registers.b = call.registers.b
            /\ registers.c = call.registers.c
    /\ (call.op = "get_de" /\ prev.op = "set_de") =>
            /\ call.value = prev.arg
            /\ registers.d = prev.arg \div 256
            /\ registers.e = prev.arg % 256
    /\ (call.op = "set_de" /\ prev.op = "get_de" /\ call.arg = prev.value) =>
            /\ registers.d = call.registers.d
            /\ registers.e = call.registers.e

\* 0x80FF was written to DE and read back
C4_Witness ==
    /\ call.op = "get_de" /\ prev.op = "set_de"
    /\ prev.arg = 33023
    /\ registers.d = 128 /\ registers.e = 255
    /\ call.value = 33023

\* BC = 0xF080 was read and written back
C4_WitnessSetAfterGet ==
    /\ call.op = "set_bc" /\ prev.op = "get_bc"
    /\ prev.value = 61568 /\ call.arg = 61568
    /\ registers.b = 240 /\ registers.c = 128

\* C9: unprefixed 0x02 decodes to Inc(BC), unprefixed 0x13 to Inc(DE),
\* prefixed 0x00 to Rlc(B), and every other byte of either table to unknown.
C9_DecodeTable ==
    call.op = "from_byte" =>
        LET byte == call.arg.byte
            is_prefixed == call.arg.is_prefixed
        IN  /\ (~is_prefixed /\ byte = 2) => call.value = Inc("BC")
            /\ (~is_prefixed /\ byte = 19) => call.value = Inc("DE")
            /\ (is_prefixed /\ byte = 0) => call.value = Rlc("B")
            /\ (~is_prefixed /\ byte \notin {2, 19}) => call.value = None
            /\ (is_prefixed /\ byte # 0) => call.value = None
            /\ call.value \in Instruction \cup {None}

\* prefixed 0x02 was decoded to unknown after prefixed 0x00 decoded to Rlc(B)
C9_Witness ==
    /\ call.op = "from_byte" /\ prev.op = "from_byte"
    /\ prev.arg = [byte |-> 0, is_prefixed |-> TRUE] /\ prev.value = Rlc("B")
    /\ call.arg = [byte |-> 2, is_prefixed |-> TRUE] /\ call.value = None

----------------------------------------------------------------------------
(* Properties of the fetch and of the instructions without semantics.      *)

\* a step read its opcode byte(s) without a fault of the fetch
SteppedPastFetch ==
    /\ call.op = "step"
    /\ call.pc < MEMORY_LEN
    /\ call.fault \notin AddressFaults

\* C11: if the byte at pc is 0xCB, step decodes the byte at pc+1, in the
\* prefixed table only; otherwise it decodes the byte at pc, in the
\* unprefixed table only.  0xCB,0x00 executes Rlc(B); 0xCB,0x02 is an
\* unknown opcode, not Inc(BC).
C11_PrefixSelectsTable ==
    SteppedPastFetch =>
        LET first == MemoryAt(call.bus, call.pc)
            second == MemoryAt(call.bus, call.pc + 1)
            decoded == call.arg
        IN  /\ first = PREFIX_BYTE =>
                    /\ decoded.is_prefixed
                    /\ decoded.byte = second
                    /\ decoded.instruction = (IF second = 0 THEN Rlc("B") ELSE None)
            /\ first # PREFIX_BYTE =>
                    /\ ~decoded.is_prefixed
                    /\ decoded.byte = first
                    /\ decoded.instruction =
                            (IF first = 2 THEN Inc("BC")
                             ELSE IF first = 19 THEN Inc("DE") ELSE None)
            /\ (call.fault = "unknown_instruction") = (decoded.instruction = None)
            /\ (first = PREFIX_BYTE /\ second = 0) =>
                    (decoded.instruction = Rlc("B") /\ call.fault = "none")
            /\ (first = PREFIX_BYTE /\ second = 2) =>
                    call.fault = "unknown_instruction"

\* a step over 0xCB,0x00 decoded Rlc(B) from the prefixed table
C11_Witness ==
    /\ SteppedPastFetch
    /\ MemoryAt(call.bus, call.pc) = PREFIX_BYTE
    /\ MemoryAt(call.bus, call.pc + 1) = 0
    /\ call.arg = [byte |-> 0, is_prefixed |-> TRUE, instruction |-> Rlc("B")]
    /\ call.fault = "none"

\* the pair an Inc names, read off a register file
PairValue(regs, pair) ==
    IF pair = "BC" THEN regs.b * 256 + regs.c ELSE regs.d * 256 + regs.e

\* C12: executing Inc(BC) increments the pair BC by one and executing
\* Inc(DE) increments the pair DE by one, modulo 65536.
C12_IncIncrementsPair ==
    (call.op = "execute" /\ call.arg.kind = "Inc") =>
        /\ call.fault = "none"
        /\ PairValue(registers, call.arg.operand)
              = (PairValue(call.registers, call.arg.operand) + 1) % 65536

\* a step fetched the opcode of an Inc (0x02 or 0x13) at pc
SteppedInc ==
    /\ call.op = "step"
    /\ call.pc < MEMORY_LEN
    /\ MemoryAt(call.bus, call.pc) \in {2, 19}

\* C13: a step that executes Inc (0x02 or 0x13 at pc) leaves pc equal to its
\* value before the step and leaves all four flags unchanged.
C13_IncKeepsPcAndFlags ==
    SteppedInc =>
        /\ call.fault = "none"
        /\ call.arg.instruction.kind = "Inc"
        /\ pc = call.pc
        /\ registers.f = call.registers.f

\* a step executed Inc(DE) at pc = 0xFFFE and the pc is still 0xFFFE
C13_Witness ==
    /\ SteppedInc
    /\ call.arg.instruction = Inc("DE")
    /\ call.pc = 65534 /\ pc = 65534
    /\ registers.f.zero /\ registers.f.carry

\* a step fetched 0xCB,0x00 at pc
SteppedRlc ==
    /\ call.op = "step"
    /\ call.pc + 1 < MEMORY_LEN
    /\ MemoryAt(call.bus, call.pc) = PREFIX_BYTE
    /\ MemoryAt(call.bus, call.pc + 1) = 0

\* C14: a step that executes Rlc(B) (0xCB,0x00 at pc) changes nothing: pc,
\* every register, every flag and memory are as before the step.
C14_RlcChangesNothing ==
    SteppedRlc =>
        /\ call.fault = "none"
        /\ call.arg.instruction = Rlc("B")
        /\ pc = call.pc
        /\ registers = call.registers
        /\ bus = call.bus

\* a step executed Rlc(B) with b = 0x11, which a rotation would change
C14_Witness ==
    /\ SteppedRlc
    /\ call.fault = "none"
    /\ call.registers.b = 17 /\ registers.b = 17
    /\ pc = call.pc

\* C15: Add with a selector other than C (A, B, D, E, H, L) is a no-op: the
\* accumulator, the other registers and the flags are unchanged and the
\* returned next pc is the current pc; only Add(C) performs the addition.
C15_AddOtherIsNoOp ==
    (call.op = "execute" /\ call.arg.kind = "Add") =>
        IF call.arg.operand = "C"
        THEN /\ registers.a = (call.registers.a + call.registers.c) % 256
             /\ call.value = (call.pc + 1) % 65536
        ELSE /\ call.fault = "none"
             /\ registers = call.registers
             /\ call.value = call.pc
             /\ pc = call.pc

\* Add(B) ran with b = 0x11 and a subtract flag set, and both are as before
C15_Witness ==
    /\ call.op = "execute" /\ call.arg = Add("B")
    /\ call.registers.b = 17 /\ call.registers.a = 255
    /\ registers.a = 255 /\ registers.f.subtract
    /\ call.value = call.pc

\* C17: after any sequence of step calls the pc, the registers and the flags
\* equal their initial values: no step changes any of them.
C17_StepNeverMoves ==
    [][pc' = pc /\ registers' = registers]_vars

\* two steps in a row ran without a fault, on the same opcode at the same pc
C17_Witness ==
    /\ call.op = "step" /\ prev.op = "step"
    /\ call.fault = "none" /\ prev.fault = "none"
    /\ call.arg.instruction = prev.arg.instruction
    /\ call.arg.instruction # None
    /\ pc = prev.pc /\ registers = prev.registers

\* C18: memory is read-only: after any sequence of steps and after execute
\* of any instruction every memory byte has its initial value.
C18_MemoryReadOnly ==
    /\ call.op # "none" => bus = call.bus
    /\ prev.op # "none" => call.bus = prev.bus

\* an execute followed a step that ran, and memory is as before the step
C18_Witness ==
    /\ call.op = "execute" /\ prev.op = "step"
    /\ call.fault = "none"
    /\ bus = prev.bus
    /\ MemoryAt(bus, pc) \in {2, 19}

\* C19: Jp with any condition, taken or not, changes no register and no
\* flag, and Add(C) changes only the accumulator and the flags: b, c, d, e,
\* h and l are unchanged.
C19_JpAndAddFrame ==
    /\ ExecutedJp =>
            /\ registers = call.registers
            /\ pc = call.pc
    /\ ExecutedAddC =>
            \A r \in {"b", "c", "d", "e", "h", "l"} :
                registers[r] = call.registers[r]

\* Add(C) changed the accumulator from 0x0F to 0x10 and left c = 0x01
C19_Witness ==
    /\ ExecutedAddC
    /\ call.registers.a = 15 /\ registers.a = 16
    /\ call.registers.c = 1 /\ registers.c = 1

\* C20: set_bc(v) changes only b and c and set_de(v) changes only d and e,
\* so writes to BC and DE in either order do not interfere.
C20_PairFrame ==
    /\ call.op = "set_bc" =>
            \A r \in {"a", "d", "e", "f", "h", "l"} :
                registers[r] = call.registers[r]
    /\ call.op = "set_de" =>
            \A r \in {"a", "b", "c", "f", "h", "l"} :
                registers[r] = call.registers[r]
    /\ (prev.op = "set_bc" /\ call.op = "set_de") =>
            /\ registers.b * 256 + registers.c = prev.arg
            /\ registers.d * 256 + registers.e = call.arg
    /\ (prev.op = "set_de" /\ call.op = "set_bc") =>
            /\ registers.d * 256 + registers.e = prev.arg
            /\ registers.b * 256 + registers.c = call.arg

\* 0x80FF was written to BC, then 0x1234 to DE, and both are in place
C20_Witness ==
    /\ prev.op = "set_bc" /\ prev.arg = 33023
    /\ call.op = "set_de" /\ call.arg = 4660
    /\ registers.b = 128 /\ registers.c = 255
    /\ registers.d = 18 /\ registers.e = 52

====
